---- MODULE Spec2Model ----
(***************************************************************************)
(* A model of src/src/elph/mobility.py (class Mobility): supercell lattice *)
(* construction, periodic-boundary interaction classification, Hamiltonian *)
(* assembly and the Monte Carlo averaging loop.                            *)
(*                                                                         *)
(* Number representation.  Fractional coordinates (atoms, positions) and   *)
(* lengths (Cartesian coordinates, displacement vectors, cutoff distances, *)
(* translation_dist) are stored as integers n standing for the real n /    *)
(* Scale.  The entries of lattice_vecs, the couplings j_*, the disorder    *)
(* magnitudes sigma_* and the Gaussian draws are stored as the integers    *)
(* they are.  Axes and matrix indices are 1-based here and 0-based in the  *)
(* source; self.plane keeps the source's 0-based axis numbers.             *)
(***************************************************************************)
EXTENDS Integers, Sequences, FiniteSets, TLC

\* ------------------------------------------------------------------ bounds
\* A stored coordinate or length n stands for n / Scale.
Scale == 2
\* Replication counts nx, ny range over -1..MaxRep.
MaxRep == 2
\* nz ranges over -1..MaxNz.
MaxNz == 2
\* Largest supercell (rows of positions) a configuration may ask for.
MaxSites == 8
\* np.random.normal is drawn from the streams 0..MaxSeed.
MaxSeed == 1
\* realizations ranges over -1..MaxRealizations.
MaxRealizations == 3
\* A trial's lx2 and ly2 range over 0..MaxL2.
MaxL2 == 1

\* ------------------------------------------------- constants of the source
\* np.isclose(a, b, atol=1e-4) with numpy's default rtol=1e-5:
\*   |a - b| <= atol + rtol * |b|,   atol = AtolNum/TolDen, rtol = RtolNum/TolDen
TolDen == 100000
AtolNum == 10
RtolNum == 1
\* for i in range(3): the three Cartesian axes
Dim == 3

VARIABLES
    config,     \* the contents of mob_file, as json.load returned them
    self,       \* the Mobility object's fields
    last,       \* the method whose return is held in ret ("none" before any)
    ret,        \* the value (or the exception) the last call ended with
    pc,         \* position of tlt_mobility()/avg_localization()
    n,          \* loop variable of avg_localization: trials completed
    avglx2_list, avgly2_list,   \* the lists avg_localization accumulates
    draws,      \* number of np.random.normal draws made since the run began
    result      \* what tlt_mobility() returned, or NoResult

vars == <<config, self, last, ret, pc, n, avglx2_list, avgly2_list, draws, result>>

\* ----------------------------------------------------------------- helpers
Abs(x) == IF x < 0 THEN -x ELSE x

\* np.sign
Sign(x) == IF x > 0 THEN 1 ELSE IF x < 0 THEN -1 ELSE 0

Axes == 1..Dim

VecAdd(u, v) == [k \in Axes |-> u[k] + v[k]]
VecSub(u, v) == [k \in Axes |-> u[k] - v[k]]

RECURSIVE SumSeq(_)
SumSeq(s) == IF s = <<>> THEN 0 ELSE Head(s) + SumSeq(Tail(s))

\* Sum of the squares of a vector's components: (np.linalg.norm(v) * Scale)^2
NormSq(v) == SumSeq([k \in Axes |-> v[k] * v[k]])

\* np.isclose(np.linalg.norm(v), d, atol=1e-4) where s = NormSq(v) and d is a
\* stored length: |sqrt(s) - d| / Scale <= atol + rtol * |d| / Scale, i.e.
\*   TolDen * |sqrt(s) - d| <= T,   T = AtolNum * Scale + RtolNum * |d|.
\* WithinTol decides TolDen * |sqrt(s) - d| <= T exactly in integers (for
\* 0 <= T < TolDen): with k = s - d^2,
\*   sqrt(s) <= d + T/TolDen  iff  TolDen*d + T >= 0 and
\*                                 TolDen*k - 2*d*T <= T^2 / TolDen
\*   sqrt(s) >= d - T/TolDen  iff  TolDen*d - T <= 0 or
\*                                 TolDen*k + 2*d*T >= T^2 / TolDen
WithinTol(s, d, T) ==
    LET k == s - d * d
    IN  /\ TolDen * d + T >= 0
        /\ TolDen * k - 2 * d * T <= (T * T) \div TolDen
        /\ \/ TolDen * d - T <= 0
           \/ TolDen * k + 2 * d * T >= (T * T + TolDen - 1) \div TolDen

isclose(s, d) == WithinTol(s, d, AtolNum * Scale + RtolNum * Abs(d))

\* ----------------------------------------------------------- configurations
Origin == <<0, 0, 0>>

\* Unit cells: one molecule at the origin; two molecules, the second at the
\* centre of the ab face (a herringbone cell).
UnitCells == { <<Origin>>, <<Origin, <<1, 1, 0>>>> }

Diag(a, b, c) == << <<a, 0, 0>>, <<0, b, 0>>, <<0, 0, c>> >>

\* lattice_vecs: a cubic cell of parameter 1, an orthorhombic cell (3, 4, 2)
\* and a sheared cell.
LatticeVecs == { Diag(1, 1, 1), Diag(3, 4, 2),
                 << <<2, 0, 0>>, <<1, 2, 0>>, <<0, 0, 2>> >> }

Planes == { <<0, 1>>, <<0, 2>> }

\* self.distances (stored lengths), in list order.  5 is the stored length
\* of the vector from the corner to the face centre of the (3, 4, 2) cell.
DistanceLists == { <<Scale, 2 * Scale, 3 * Scale>>,
                   <<5, 3 * Scale, 4 * Scale>>,
                   <<3 * Scale, 0, Scale, 2 * Scale>> }

TranslationDists == { Scale, 3 * Scale }

Couplings ==
    { [j_ii |-> ji, j_ij |-> jij, sigma_ii |-> s[1], sigma_ij |-> s[2]] :
        ji \in {0, 1},
        jij \in { <<4, 5, 6>>, <<2, 3, 7>> },
        s \in { <<0, <<0, 0, 0>>>>, <<1, <<1, 2, 3>>>> } }

\* (nx, ny, nz): every supercell the bounds allow, and every triple with a
\* count below 1.
ValidReps == (1..MaxRep) \X (1..MaxRep) \X (1..MaxNz)
InvalidReps == ((-1..MaxRep) \X (-1..MaxRep) \X (-1..MaxNz)) \ ValidReps

Geometry(at, rep, lv, pl, ds, td) ==
    [atoms |-> at, nx |-> rep[1], ny |-> rep[2], nz |-> rep[3], lattice_vecs |-> lv,
     plane |-> pl, distances |-> ds, translation_dist |-> td]

\* The supercells with all counts >= 1 vary in every field; those with a
\* count below 1 vary in the counts and the unit cell.
Geometries ==
    { Geometry(at, rep, lv, pl, ds, td) :
        at \in UnitCells, rep \in ValidReps, lv \in LatticeVecs, pl \in Planes,
        ds \in DistanceLists, td \in TranslationDists }
    \cup
    { Geometry(at, rep, Diag(1, 1, 1), <<0, 1>>, <<Scale, 2 * Scale, 3 * Scale>>, Scale) :
        at \in UnitCells, rep \in InvalidReps }

Merge(g, c, r) ==
    [atoms |-> g.atoms, nx |-> g.nx, ny |-> g.ny, nz |-> g.nz,
     lattice_vecs |-> g.lattice_vecs, plane |-> g.plane,
     distances |-> g.distances, translation_dist |-> g.translation_dist,
     j_ii |-> c.j_ii, j_ij |-> c.j_ij, sigma_ii |-> c.sigma_ii,
     sigma_ij |-> c.sigma_ij, realizations |-> r]

\* Configurations of the single-call specification.
Configs ==
    { Merge(g, c, 1) : g \in { h \in Geometries :
                                Abs(Len(h.atoms) * h.nx * h.ny * h.nz) <= MaxSites },
                       c \in Couplings }

\* ------------------------------------------------------------ __init__
\* self.<field> = config.get("<field>", default): every field is copied.
Mobility_init(cfg) == cfg

\* ------------------------------------------------------ generate_lattice
\* positions[count:(count + n_in_cell),] = self.atoms + [a, b, c]
\* count += n_in_cell
WriteCell(s, st, a, b, c) ==
    LET n_in_cell == Len(s.atoms)
        offset == <<a * Scale, b * Scale, c * Scale>>
    IN  [positions |->
            [r \in 1..Len(st.positions) |->
                IF st.count < r /\ r <= st.count + n_in_cell
                THEN VecAdd(s.atoms[r - st.count], offset)
                ELSE st.positions[r]],
         count |-> st.count + n_in_cell]

\* for c in range(self.nz)
RECURSIVE LoopC(_, _, _, _, _)
LoopC(s, st, a, b, c) ==
    IF c >= s.nz THEN st ELSE LoopC(s, WriteCell(s, st, a, b, c), a, b, c + 1)

\* for b in range(self.ny)
RECURSIVE LoopB(_, _, _, _)
LoopB(s, st, a, b) ==
    IF b >= s.ny THEN st ELSE LoopB(s, LoopC(s, st, a, b, 0), a, b + 1)

\* for a in range(self.nx)
RECURSIVE LoopA(_, _, _)
LoopA(s, st, a) ==
    IF a >= s.nx THEN st ELSE LoopA(s, LoopB(s, st, a, 0), a + 1)

\* A slip that swaps the roles of b and c in the offset.
generate_lattice_swapped(s) ==
    LET rows == Len(s.atoms) * s.nx * s.ny * s.nz
        full == LoopA(s, [positions |-> [r \in 1..rows |-> Origin], count |-> 0], 0)
    IN  IF rows < 0
        THEN [error |-> "ValueError", positions |-> <<>>, atoms |-> s.atoms]
        ELSE [error |-> "none",
              positions |-> [r \in 1..rows |->
                  <<full.positions[r][1], full.positions[r][3] , full.positions[r][2]>>],
              atoms |-> s.atoms]

\* np.zeros((n_in_cell * nx * ny * nz, 3)) raises ValueError for a negative
\* row count; otherwise the loops fill the rows they reach and the array is
\* returned.  self.atoms + [a, b, c] builds a new array: atoms is not written.
generate_lattice(s) ==
    LET rows == Len(s.atoms) * s.nx * s.ny * s.nz
    IN  IF rows < 0
        THEN [error |-> "ValueError", positions |-> <<>>, atoms |-> s.atoms]
        ELSE [error |-> "none",
              positions |->
                  LoopA(s, [positions |-> [r \in 1..rows |-> Origin],
                            count |-> 0], 0).positions,
              atoms |-> s.atoms]

\* -------------------------------------------------------------- dist_pbc
\* dist_vecs[:, :, i].any(): whether some component along axis i is nonzero.
\* The call returns one Python bool for the whole slice.
AnyNonzero(dist_vecs, i) ==
    \E p \in DOMAIN dist_vecs : \E q \in DOMAIN dist_vecs[p] : dist_vecs[p][q][i] # 0

\* What the loop body adds to every component along axis i.  The bool
\* returned by .any() is compared, as the number 0 or 1, with +-L/2 where
\* L = lattice_vecs[i, i] (an unscaled real, so b > L/2 iff 2*b > L).
PbcShift(s, dist_vecs, i) ==
    LET b == IF AnyNonzero(dist_vecs, i) THEN 1 ELSE 0
        L == s.lattice_vecs[i][i]
    IN  IF 2 * b > L THEN -(Scale * L)
        ELSE IF 2 * b < -L THEN Scale * L
        ELSE 0

dist_pbc(s, dist_vecs) ==
    [p \in DOMAIN dist_vecs |->
        [q \in DOMAIN dist_vecs[p] |->
            [i \in Axes |-> dist_vecs[p][q][i] + PbcShift(s, dist_vecs, i)]]]

\* ---------------------------------------------------------- interactions
\* np.dot(positions, self.lattice_vecs.T)
Cartesian(s, positions) ==
    [r \in DOMAIN positions |->
        [i \in Axes |-> SumSeq([k \in Axes |-> positions[r][k] * s.lattice_vecs[i][k]])]]

\* lattice[:, None, :] - lattice[None, :, :]
Pairwise(lattice) ==
    [p \in DOMAIN lattice |-> [q \in DOMAIN lattice |-> VecSub(lattice[p], lattice[q])]]

\* for idx, d in enumerate(self.distances, start=1):
\*     interaction_matrix[np.isclose(distances, d, atol=1e-4)] = idx
RECURSIVE MatchCutoffs(_, _, _, _)
MatchCutoffs(s, dist_vecs, M, idx) ==
    IF idx > Len(s.distances) THEN M
    ELSE MatchCutoffs(s, dist_vecs,
            [p \in DOMAIN M |-> [q \in DOMAIN M |->
                IF isclose(NormSq(dist_vecs[p][q]), s.distances[idx])
                THEN idx ELSE M[p][q]]],
            idx + 1)

\* for i in range(N): for j in range(N):
\*     if np.any(np.isclose(np.linalg.norm(lattice[i] - lattice[j]),
\*                          self.translation_dist, atol=1e-4)):
\*         interaction_matrix[i, j] = 3
TranslationOverride(s, lattice, M) ==
    [p \in DOMAIN M |-> [q \in DOMAIN M |->
        IF isclose(NormSq(VecSub(lattice[p], lattice[q])), s.translation_dist)
        THEN 3 ELSE M[p][q]]]

\* signs[..., self.plane[0]] != signs[..., self.plane[1]]
group1_mask(s, v) == Sign(v[s.plane[1] + 1]) # Sign(v[s.plane[2] + 1])
\* A slip: a zero component counts as matching any sign.
group2_mask_zero_matches(s, v) == Sign(v[s.plane[1] + 1]) * Sign(v[s.plane[2] + 1]) >= 0

\* signs[..., self.plane[0]] == signs[..., self.plane[1]]
group2_mask(s, v) == Sign(v[s.plane[1] + 1]) = Sign(v[s.plane[2] + 1])

\* type1_mask = interaction_matrix == 1
\* interaction_matrix[type1_mask & group1_mask] = 1
\* interaction_matrix[type1_mask & group2_mask] = 2
SignRefine(s, dist_vecs, M) ==
    LET keep == [p \in DOMAIN M |-> [q \in DOMAIN M |->
                    IF M[p][q] = 1 /\ group1_mask(s, dist_vecs[p][q]) THEN 1 ELSE M[p][q]]]
    IN  [p \in DOMAIN M |-> [q \in DOMAIN M |->
            IF M[p][q] = 1 /\ group2_mask(s, dist_vecs[p][q]) THEN 2 ELSE keep[p][q]]]

Zeros(N) == [p \in 1..N |-> [q \in 1..N |-> 0]]

\* The fields disp, matched and overridden are the values the locals
\* dist_vecs (before dist_pbc) and interaction_matrix (after each of the
\* first two stages) held; the method returns (dist_vecs, interaction_matrix).
interactions(s) ==
    LET g == generate_lattice(s)
        lattice == Cartesian(s, g.positions)
        N == Len(lattice)
        disp == Pairwise(lattice)
        dist_vecs == dist_pbc(s, disp)
        matched == MatchCutoffs(s, dist_vecs, Zeros(N), 1)
        overridden == TranslationOverride(s, lattice, matched)
    IN  IF g.error # "none"
        THEN [error |-> g.error]
        ELSE [error |-> "none", lattice |-> lattice, disp |-> disp,
              dist_vecs |-> dist_vecs, matched |-> matched,
              overridden |-> overridden,
              interaction_matrix |-> SignRefine(s, dist_vecs, overridden)]

\* ------------------------------------------------------------ hamiltonian
\* M[M == v] = w
Replace(M, v, w) ==
    [p \in DOMAIN M |-> [q \in DOMAIN M |-> IF M[p][q] = v THEN w ELSE M[p][q]]]

\* np.diag([x] * N)
DiagMatrix(N, x) == [p \in 1..N |-> [q \in 1..N |-> IF p = q THEN x ELSE 0]]

\* Hij_matrix[Hij_matrix==1] = j1; [..==2] = j2; [..==3] = j3, one statement
\* after the other on the float copy of interaction_matrix (the same three
\* statements build sigmaij_matrix from s1, s2, s3).
MapCodes(M, v) == Replace(Replace(Replace(M, 1, v[1]), 2, v[2]), 3, v[3])

\* np.random.normal(0, 1, size=(N, N)): the draw of random stream `seed`,
\* a matrix of independent values, here in -2..2 and not symmetric.
normal(seed, N) ==
    [p \in 1..N |-> [q \in 1..N |-> (((seed + 1) * (2 * p + 3 * q) + seed) % 5) - 2]]

\* np.tril(G) + np.tril(G, -1).T
Symmetrize(G) ==
    [p \in DOMAIN G |-> [q \in DOMAIN G |->
        (IF q <= p THEN G[p][q] ELSE 0) + (IF p < q THEN G[q][p] ELSE 0)]]

\* H = Hii_matrix + Hij_matrix + sigmaij_matrix * gaussian_matrix
\* (sigmaii_matrix is built on line 169 and not used afterwards)
hamiltonian(s, seed) ==
    LET r == interactions(s)
        N == Len(r.interaction_matrix)
        Hij_matrix == MapCodes(r.interaction_matrix, s.j_ij)
        sigmaij_matrix == MapCodes(r.interaction_matrix, s.sigma_ij)
        Hii_matrix == DiagMatrix(N, s.j_ii)
        sigmaii_matrix == DiagMatrix(N, s.sigma_ii)
        gaussian_matrix == Symmetrize(normal(seed, N))
    IN  IF r.error # "none"
        THEN [error |-> r.error]
        ELSE [error |-> "none",
              interaction_matrix |-> r.interaction_matrix,
              Hii_matrix |-> Hii_matrix, Hij_matrix |-> Hij_matrix,
              sigmaii_matrix |-> sigmaii_matrix,
              sigmaij_matrix |-> sigmaij_matrix,
              gaussian_matrix |-> gaussian_matrix,
              H |-> [p \in 1..N |-> [q \in 1..N |->
                        Hii_matrix[p][q] + Hij_matrix[p][q]
                        + sigmaij_matrix[p][q] * gaussian_matrix[p][q]]]]

\* ----------------------------------------------------------- localization
\* One trial: generate_lattice(), hamiltonian() with a fresh draw, then
\* np.linalg.eigh and the sums over the eigenbasis.  The eigen-solve is not
\* computed here: `eig` is what it ends with, a pair of values or a
\* LinAlgError.
EigOutcomes ==
    { [error |-> "none", lx2 |-> x, ly2 |-> y] : x \in 0..MaxL2, y \in 0..MaxL2 }
    \cup { [error |-> "LinAlgError", lx2 |-> 0, ly2 |-> 0] }

\* Where a SIGINT reaches one pass of the loop, if it does: while
\* localization() has not yet reached line 189 (np.random.normal), after
\* that line and before localization() returns, back in avg_localization()
\* after localization() has returned and before line 264
\* (avglx2_list.append), after line 264 and before line 265
\* (avgly2_list.append), or after both appends.  Python raises
\* KeyboardInterrupt at that point; nothing in this file catches it.
SigintPoints ==
    {"none", "before_draw", "after_draw", "after_return", "between_appends",
     "after_append"}

\* drew tells whether line 189 (np.random.normal) was reached.  With an empty
\* lattice (a count of nx, ny, nz is 0) eigh has nothing to solve and line 229
\* ends in sum(0): TypeError ('int' object is not iterable).
localization(s, seed, eig, sigint) ==
    LET g == generate_lattice(s)
        h == hamiltonian(s, seed)
    IN  IF sigint = "before_draw" THEN [error |-> "KeyboardInterrupt", drew |-> FALSE]
        ELSE IF g.error # "none" THEN [error |-> g.error, drew |-> FALSE]
        ELSE IF h.error # "none" THEN [error |-> h.error, drew |-> FALSE]
        ELSE IF sigint = "after_draw" THEN [error |-> "KeyboardInterrupt", drew |-> TRUE]
        ELSE IF eig.error # "none" THEN [error |-> eig.error, drew |-> TRUE]
        ELSE IF Len(g.positions) = 0 THEN [error |-> "TypeError", drew |-> TRUE]
        ELSE [error |-> "none", drew |-> TRUE, h_ij |-> h.H,
              lx2 |-> eig.lx2, ly2 |-> eig.ly2]

\* ------------------------------------------- avg_localization, tlt_mobility
NoResult == [error |-> "none", returned |-> FALSE]

\* A quotient num / den, kept exact.
Quot(num, den) == [num |-> num, den |-> den]

\* avglx2 = sum(avglx2_list) / self.realizations  (and avgly2), then
\* tlt_mobility's return.  The three mobilities are the averages times the
\* common factor 1e-16 * e / (2 * tau * k * temp), which is left out.
avg_return(s, st) ==
    IF s.realizations = 0
    THEN [st EXCEPT !.pc = "raised",
                    !.result = [error |-> "ZeroDivisionError", returned |-> FALSE]]
    ELSE [st EXCEPT !.pc = "returned",
                    !.result = [error |-> "none", returned |-> TRUE,
                                avglx2 |-> Quot(SumSeq(st.avglx2_list), s.realizations),
                                avgly2 |-> Quot(SumSeq(st.avgly2_list), s.realizations),
                                mobilityx |-> Quot(SumSeq(st.avglx2_list), s.realizations),
                                mobilityy |-> Quot(SumSeq(st.avgly2_list), s.realizations),
                                mobility_average |->
                                    Quot(SumSeq(st.avglx2_list) + SumSeq(st.avgly2_list),
                                         2 * s.realizations)]]

\* KeyboardInterrupt leaves avg_localization() and tlt_mobility(): the
\* locals keep what they held and nothing is returned.
interrupted(st) ==
    [st EXCEPT !.pc = "raised",
               !.result = [error |-> "KeyboardInterrupt", returned |-> FALSE]]

\* One pass of `for n in range(self.realizations)`: localization() raised
\* (nothing catches it, here or in tlt_mobility), or a SIGINT arrives when it
\* has returned and nothing is appended yet, or a SIGINT arrives when only
\* lx2 has been appended (the pass is not completed: n stays), or both values
\* are appended and then a SIGINT arrives (before the next pass, or in lines
\* 267-292 after the last), or the loop goes on, or ends and the averages are
\* returned.
avg_iteration(s, st, loc, sigint) ==
    IF loc.error # "none"
    THEN [st EXCEPT !.pc = "raised",
                    !.result = [error |-> loc.error, returned |-> FALSE]]
    ELSE LET st1 == [st EXCEPT !.n = st.n + 1,
                               !.avglx2_list = Append(st.avglx2_list, loc.lx2),
                               !.avgly2_list = Append(st.avgly2_list, loc.ly2)]
         IN  IF sigint = "after_return" THEN interrupted(st)
             ELSE IF sigint = "between_appends"
             THEN interrupted([st EXCEPT !.avglx2_list = Append(st.avglx2_list, loc.lx2)])
             ELSE IF sigint = "after_append" THEN interrupted(st1)
             ELSE IF st1.n < s.realizations THEN st1 ELSE avg_return(s, st1)

\* avglx2_list = []; avgly2_list = []; an empty range goes straight to the
\* division.  sigint: a SIGINT arrives before the first pass (or, with an
\* empty range, before the division).
avg_localization_enter(s, sigint) ==
    LET st == [pc |-> "loop", n |-> 0, avglx2_list |-> <<>>, avgly2_list |-> <<>>,
               result |-> NoResult]
    IN  IF sigint THEN interrupted(st)
        ELSE IF 0 < s.realizations THEN st ELSE avg_return(s, st)

\* ------------------------------------------------------------------ states
Seeds == 0..MaxSeed

Idle ==
    /\ last = "none"
    /\ ret = [error |-> "none"]
    /\ pc = "idle"
    /\ n = 0
    /\ avglx2_list = <<>>
    /\ avgly2_list = <<>>
    /\ draws = 0
    /\ result = NoResult

Init ==
    /\ config \in Configs
    /\ self = Mobility_init(config)
    /\ Idle

run == <<pc, n, avglx2_list, avgly2_list, draws, result>>

\* The three methods below read the object and write none of its fields, so
\* a second call would start from the state the first started from: each
\* constructed object is followed through one call.

\* A call of generate_lattice() on the object.
GenerateLattice ==
    LET g == generate_lattice(self)
    IN  /\ last = "none"
        /\ last' = "generate_lattice"
        /\ ret' = [error |-> g.error, positions |-> g.positions]
        /\ self' = [self EXCEPT !.atoms = g.atoms]
        /\ UNCHANGED <<config, run>>

\* A call of interactions() on the object.
Interactions ==
    /\ last = "none"
    /\ last' = "interactions"
    /\ ret' = interactions(self)
    /\ UNCHANGED <<config, self, run>>

\* A call of hamiltonian() on the object, with the draw of one random stream.
Hamiltonian ==
    \E seed \in Seeds :
        /\ last = "none"
        /\ last' = "hamiltonian"
        /\ ret' = hamiltonian(self, seed)
        /\ draws' = IF ret'.error = "none" THEN 1 ELSE 0
        /\ UNCHANGED <<config, self, pc, n, avglx2_list, avgly2_list, result>>

Next == GenerateLattice \/ Interactions \/ Hamiltonian

Spec == Init /\ [][Next]_vars

\* ------------------------------------------------- the averaging run
\* Configurations of the averaging specification: a 2 x 1 x 1 supercell of
\* the one-molecule cell, an empty one (nx = 0), and one whose row count is
\* negative.
AvgGeometries ==
    { g \in Geometries :
        /\ g.atoms = <<Origin>> /\ g.ny = 1 /\ g.nz = 1 /\ g.nx \in {2, 0, -1}
        /\ g.lattice_vecs = Diag(1, 1, 1) /\ g.plane = <<0, 1>>
        /\ g.distances = <<Scale, 2 * Scale, 3 * Scale>> /\ g.translation_dist = Scale }

AvgCoupling == [j_ii |-> 1, j_ij |-> <<4, 5, 6>>, sigma_ii |-> 1, sigma_ij |-> <<1, 2, 3>>]

AvgConfigs ==
    { Merge(g, AvgCoupling, r) : g \in AvgGeometries, r \in -1..MaxRealizations }

InitAvg ==
    /\ config \in AvgConfigs
    /\ self = Mobility_init(config)
    /\ Idle

Set(st) ==
    /\ pc' = st.pc
    /\ n' = st.n
    /\ avglx2_list' = st.avglx2_list
    /\ avgly2_list' = st.avgly2_list
    /\ result' = st.result

\* tlt_mobility() is called and enters avg_localization().
Start ==
    /\ pc = "idle"
    /\ \E sigint \in BOOLEAN : Set(avg_localization_enter(self, sigint))
    /\ draws' = 0
    /\ UNCHANGED <<config, self, last, ret>>

\* One pass of the loop: a call of localization() and what follows it.
Trial ==
    /\ pc = "loop"
    /\ \E seed \in Seeds, eig \in EigOutcomes, sigint \in SigintPoints :
         LET loc == localization(self, seed, eig, sigint)
         IN  /\ Set(avg_iteration(self,
                        [pc |-> pc, n |-> n, avglx2_list |-> avglx2_list,
                         avgly2_list |-> avgly2_list, result |-> result], loc, sigint))
             /\ draws' = IF loc.drew THEN draws + 1 ELSE draws
             /\ last' = "localization"
             /\ ret' = loc
    /\ UNCHANGED <<config, self>>

NextAvg == Start \/ Trial

SpecAvg == InitAvg /\ [][NextAvg]_vars

\* ------------------------------------------------------------------ claims
\* A valid configuration: all three replication counts are at least 1.
Valid(s) == s.nx >= 1 /\ s.ny >= 1 /\ s.nz >= 1

Returned(method) == last = method /\ ret.error = "none"

Symmetric(M) == \A p \in DOMAIN M : \A q \in DOMAIN M : M[p][q] = M[q][p]

\* C1: for a valid configuration and any draw, the matrix H returned by
\* hamiltonian() satisfies H[i,j] = H[j,i] for all i, j.
C1_HamiltonianSymmetric ==
    (Returned("hamiltonian") /\ Valid(self)) => Symmetric(ret.H)

\* C2: for a valid configuration the interaction matrix returned by
\* interactions() is symmetric: type[i,j] = type[j,i] for all i, j.
C2_InteractionSymmetric ==
    (Returned("interactions") /\ Valid(self)) => Symmetric(ret.interaction_matrix)

\* C3: for a valid configuration generate_lattice() returns K*nx*ny*nz rows,
\* the row at 0-based index ((a*ny + b)*nz + c)*K + m is unit-cell atom m
\* plus the offset (a, b, c), and the configured atoms are left unchanged.
C3_LatticeRows ==
    (last = "generate_lattice" /\ Valid(config)) =>
        LET K == Len(config.atoms)
        IN  /\ ret.error = "none"
            /\ Len(ret.positions) = K * config.nx * config.ny * config.nz
            /\ \A a \in 0..(config.nx - 1), b \in 0..(config.ny - 1),
                  c \in 0..(config.nz - 1), m \in 0..(K - 1) :
                    ret.positions[((a * config.ny + b) * config.nz + c) * K + m + 1]
                        = <<config.atoms[m + 1][1] + a * Scale,
                            config.atoms[m + 1][2] + b * Scale,
                            config.atoms[m + 1][3] + c * Scale>>
            /\ self.atoms = config.atoms

\* C3 witness: the one-molecule cell replicated 2 x 2 x 2 has been built; the
\* rows of the offsets (0,0,1), (0,1,0) and (1,1,1) are where the order puts
\* them.
C3_Witness ==
    /\ last = "generate_lattice"
    /\ config.atoms = <<Origin>> /\ config.nx = 2 /\ config.ny = 2 /\ config.nz = 2
    /\ Len(ret.positions) = 8
    /\ ret.positions[2] = <<0, 0, Scale>>
    /\ ret.positions[3] = <<0, Scale, 0>>
    /\ ret.positions[8] = <<Scale, Scale, Scale>>

\* |np.linalg.norm(v) - d| <= 1e-4 for a stored vector v and a stored length d
Within1e4(v, d) == WithinTol(NormSq(v), d, AtolNum * Scale)

\* C4: after the override stage every pair whose distance, computed from the
\* corrected displacement, is within 1e-4 of translation_dist has code 3,
\* and every other pair has the code the cutoff stage gave it.
C4_OverrideByCorrectedDistance ==
    (Returned("interactions") /\ Valid(self)) =>
        \A p \in DOMAIN ret.overridden : \A q \in DOMAIN ret.overridden :
            ret.overridden[p][q] =
                IF Within1e4(ret.dist_vecs[p][q], self.translation_dist)
                THEN 3 ELSE ret.matched[p][q]

\* The entry the claims give the deterministic matrices: x on the diagonal,
\* v[t] off the diagonal where the interaction code is t in {1,2,3}, else 0.
Expected(M, x, v, p, q) ==
    IF p = q THEN x
    ELSE IF M[p][q] \in {1, 2, 3} THEN v[M[p][q]]
    ELSE 0

AllZero(v) == \A k \in DOMAIN v : v[k] = 0

\* C5: with all disorder magnitudes zero, H has j_ii on the diagonal, the
\* t-th entry of j_ij on every off-diagonal entry of code t in {1,2,3}, and
\* 0 everywhere else.
C5_DeterministicPart ==
    (Returned("hamiltonian") /\ Valid(self)
        /\ self.sigma_ii = 0 /\ AllZero(self.sigma_ij)) =>
        \A p \in DOMAIN ret.H : \A q \in DOMAIN ret.H :
            ret.H[p][q] = Expected(ret.interaction_matrix, self.j_ii, self.j_ij, p, q)

\* C6: the disorder term of H (H minus its deterministic part) is
\* Sigma[i,j] * G[i,j], Sigma having sigma_ii on the diagonal and the t-th
\* entry of sigma_ij on the off-diagonal entries of code t in {1,2,3}.
C6_DisorderTerm ==
    (Returned("hamiltonian") /\ Valid(self)) =>
        \A p \in DOMAIN ret.H : \A q \in DOMAIN ret.H :
            ret.H[p][q] - (ret.Hii_matrix[p][q] + ret.Hij_matrix[p][q]) =
                Expected(ret.interaction_matrix, self.sigma_ii, self.sigma_ij, p, q)
                    * ret.gaussian_matrix[p][q]

\* C8: when a replication count is below 1, every call ends in an error: no
\* positions array is produced and no later stage returns a value.
C8_DimensionError ==
    (~Valid(self) /\ last # "none") => ret.error # "none"

\* The rule C10 states for one axis: the amount added to every component
\* along axis i (a stored component c exceeds L/2 iff 2*c > Scale*L).
ClaimedPbcShift(s, dist_vecs, i) ==
    LET L == s.lattice_vecs[i][i]
        C == { dist_vecs[p][q][i] : p \in DOMAIN dist_vecs, q \in DOMAIN dist_vecs }
    IN  IF \E c \in C : 2 * c > Scale * L THEN -(Scale * L)
        ELSE IF \E c \in C : 2 * c < -(Scale * L) THEN Scale * L
        ELSE 0

\* C10: per axis, dist_pbc subtracts L_axis from the components along the
\* axis if any of them exceeds +L_axis/2, otherwise adds L_axis if any is
\* below -L_axis/2, otherwise leaves them unchanged.
C10_PbcPerAxisThreshold ==
    (Returned("interactions") /\ Valid(self)) =>
        \A p \in DOMAIN ret.disp : \A q \in DOMAIN ret.disp : \A i \in Axes :
            ret.dist_vecs[p][q][i] = ret.disp[p][q][i] + ClaimedPbcShift(self, ret.disp, i)

\* The two components of a displacement along the transport-plane axes.
PlaneA(v) == v[self.plane[1] + 1]
PlaneB(v) == v[self.plane[2] + 1]

\* One component positive and the other negative.
OppositeSigns(a, b) == (a > 0 /\ b < 0) \/ (a < 0 /\ b > 0)

\* Both positive, both negative or both zero: np.sign gives the same value.
SameSign(a, b) == (a > 0 /\ b > 0) \/ (a < 0 /\ b < 0) \/ (a = 0 /\ b = 0)

\* C9 as stated: a pair coded 1 after the override keeps code 1 exactly when
\* its two plane components are one positive and one negative, and gets
\* code 2 when their signs match; every other pair keeps its code.
C9_RefineOppositeSigns ==
    Returned("interactions") =>
        \A p \in DOMAIN ret.overridden : \A q \in DOMAIN ret.overridden :
            LET v == ret.dist_vecs[p][q]
                before == ret.overridden[p][q]
                after == ret.interaction_matrix[p][q]
            IN  IF before = 1
                THEN /\ (after = 1) <=> OppositeSigns(PlaneA(v), PlaneB(v))
                     /\ SameSign(PlaneA(v), PlaneB(v)) => after = 2
                ELSE after = before

\* C9 (amended): a pair coded 1 after the override gets code 2 exactly when
\* np.sign agrees on its two plane components (both positive, both negative
\* or both zero) and keeps code 1 otherwise, which includes the pairs with
\* exactly one zero component; every other pair keeps its code.
C9_RefineBySign ==
    Returned("interactions") =>
        \A p \in DOMAIN ret.overridden : \A q \in DOMAIN ret.overridden :
            LET v == ret.dist_vecs[p][q]
                before == ret.overridden[p][q]
                after == ret.interaction_matrix[p][q]
            IN  IF before = 1
                THEN after = IF SameSign(PlaneA(v), PlaneB(v)) THEN 2 ELSE 1
                ELSE after = before

\* C9 witness: one returned matrix in which a pair coded 1 was kept (signs
\* differ), another was reassigned to 2, and a pair coded 3 was left alone.
C9_Witness ==
    /\ Returned("interactions")
    /\ \E p \in DOMAIN ret.overridden : \E q \in DOMAIN ret.overridden :
            /\ ret.overridden[p][q] = 1 /\ ret.interaction_matrix[p][q] = 1
            /\ OppositeSigns(PlaneA(ret.dist_vecs[p][q]), PlaneB(ret.dist_vecs[p][q]))
    /\ \E p \in DOMAIN ret.overridden : \E q \in DOMAIN ret.overridden :
            /\ ret.overridden[p][q] = 1 /\ ret.interaction_matrix[p][q] = 2
            /\ PlaneA(ret.dist_vecs[p][q]) # 0
    /\ \E p \in DOMAIN ret.overridden : \E q \in DOMAIN ret.overridden :
            ret.overridden[p][q] = 3 /\ ret.interaction_matrix[p][q] = 3

\* C7: avg_localization() returns, for each axis, the sum of the per-trial
\* values divided by `realizations`, over exactly `realizations` completed
\* trials each with its own draw, or it returns nothing: a trial that raised
\* ends the run with that exception and no averages.
C7_AverageOrNothing ==
    /\ result.returned =>
            /\ pc = "returned"
            /\ n = self.realizations
            /\ Len(avglx2_list) = self.realizations
            /\ Len(avgly2_list) = self.realizations
            /\ draws = self.realizations
            /\ result.avglx2 = Quot(SumSeq(avglx2_list), self.realizations)
            /\ result.avgly2 = Quot(SumSeq(avgly2_list), self.realizations)
    /\ (last = "localization" /\ ret.error # "none") =>
            /\ pc = "raised"
            /\ ~result.returned
            /\ result.error = ret.error
    /\ pc = "raised" => (~result.returned /\ result.error # "none")
    /\ pc = "loop" => (~result.returned /\ n < self.realizations
                        /\ Len(avglx2_list) = n /\ Len(avgly2_list) = n)

\* C7 witness: with realizations = -1 the run has returned averages (0 / -1)
\* and mobilities although no trial was run and nothing was drawn.
C7_Witness ==
    /\ pc = "returned"
    /\ self.realizations = -1
    /\ result.returned
    /\ n = 0 /\ draws = 0 /\ last = "none"
    /\ result.avglx2 = Quot(0, -1)
    /\ result.avgly2 = Quot(0, -1)

====
